---- MODULE Spec2Model ----
(***************************************************************************)
(* A model of the BINRPC record codec of go-kamailio (binrpc/record.go):   *)
(* the Record value object, its strict accessors, Scan, and Encode,        *)
(* together with the parts of the package that record.go calls or that    *)
(* call it (intToBytesBE, the type tags, the record decoder and the        *)
(* packet framer), which are modelled from the design document.            *)
(*                                                                         *)
(* Data representation                                                     *)
(*   - a byte is a number in 0..255, a Go string a sequence of bytes;      *)
(*   - a Go int is a 64-bit two's-complement word; the model holds ints    *)
(*     as mathematical integers of small magnitude and computes their      *)
(*     8-byte big-endian image digit by digit (Uint64BE), so that a        *)
(*     negative int has the eight bytes the machine word has;              *)
(*   - a float64 x is held as an exact decimal: its integer part n and     *)
(*     its fraction f / Scale (FracDigits digits), both with the sign of   *)
(*     x.  The float64 values given to Encode are multiples of 1/32: they  *)
(*     are float64 values, and their product with 1000 is exact in         *)
(*     float64, so the decimal arithmetic is the arithmetic of the code;   *)
(*   - the dynamic type of Record.Value (Go's `any`) is the field kind.    *)
(***************************************************************************)
EXTENDS Integers, Sequences, FiniteSets, TLC

\* ------------------------------------------------------------------ bounds
\* fractional decimal digits carried by the model's float64 values
FracDigits == 5
\* Encode calls on one writer
MaxEncodes == 2
\* requests written on one connection
MaxRequests == 2

Scale == 10 ^ FracDigits

\* ------------------------------------------------------- program constants
\* wire type tags (bits 0-3 of the record header)
TypeInt == 0
TypeString == 1
TypeDouble == 2
TypeStruct == 3
\* payload sizes below this fit the 3-bit size field of the header
ShortLimit == 8
\* bytes of a Go int on the 64-bit targets
IntBytes == 8

\* ------------------------------------------------------------ byte helpers
Rep(b, n) == [i \in 1 .. n |-> b]

RECURSIVE BitOr(_, _)
\* a | b on non-negative integers
BitOr(a, b) ==
    IF a = 0 THEN b
    ELSE IF b = 0 THEN a
    ELSE (IF a % 2 = 1 \/ b % 2 = 1 THEN 1 ELSE 0) + 2 * BitOr(a \div 2, b \div 2)

\* uint8(x) / byte(x): keep the low 8 bits
ToUint8(x) == x % 256

RECURSIVE DigitsBE(_, _)
\* the k-byte big-endian image of n >= 0 (low k bytes)
DigitsBE(n, k) ==
    IF k = 0 THEN << >> ELSE Append(DigitsBE(n \div 256, k - 1), n % 256)

\* the 8-byte big-endian image of uint64(v): two's complement for v < 0,
\* computed as the bitwise complement of -v - 1
Uint64BE(v) ==
    IF v >= 0 THEN DigitsBE(v, IntBytes)
    ELSE [i \in 1 .. IntBytes |-> 255 - DigitsBE(-v - 1, IntBytes)[i]]

RECURSIVE TrimLeftZero(_)
TrimLeftZero(bs) ==
    IF bs = << >> THEN << >>
    ELSE IF Head(bs) = 0 THEN TrimLeftZero(Tail(bs))
    ELSE bs

\* intToBytesBE: the big-endian bytes of the int with leading zero bytes
\* removed; 0 gives no bytes at all
intToBytesBE(v) == TrimLeftZero(Uint64BE(v))

RECURSIVE ValueBE(_)
\* the unsigned big-endian value of a byte sequence
ValueBE(bs) ==
    IF bs = << >> THEN 0 ELSE 256 * ValueBE(SubSeq(bs, 1, Len(bs) - 1)) + bs[Len(bs)]

\* the int held by a big-endian payload of at most IntBytes bytes: the
\* payload is the low bytes of a 64-bit word, so only a full-width payload
\* with its top bit set is negative
bytesToIntBE(bs) ==
    IF Len(bs) = IntBytes /\ bs[1] >= 128
    THEN -(ValueBE([i \in 1 .. IntBytes |-> 255 - bs[i]]) + 1)
    ELSE ValueBE(bs)

\* ------------------------------------------------------- text conversions
IsDigit(b) == b \in 48 .. 57

AllDigits(bs) == \A i \in 1 .. Len(bs) : IsDigit(bs[i])

RECURSIVE DecDigits(_)
\* the decimal digits of n >= 0
DecDigits(n) ==
    IF n < 10 THEN << 48 + n >> ELSE Append(DecDigits(n \div 10), 48 + (n % 10))

RECURSIVE DecValue(_)
\* the number a sequence of decimal digits denotes
DecValue(bs) ==
    IF bs = << >> THEN 0
    ELSE 10 * DecValue(SubSeq(bs, 1, Len(bs) - 1)) + (bs[Len(bs)] - 48)

\* strconv.Itoa
Itoa(n) == IF n < 0 THEN << 45 >> \o DecDigits(-n) ELSE DecDigits(n)

\* strconv.Atoi: an optional sign followed by one or more decimal digits
Atoi(s) ==
    LET signed == s # << >> /\ s[1] \in {43, 45}
        body == IF signed THEN Tail(s) ELSE s
        neg == signed /\ s[1] = 45
    IN  IF body = << >> \/ ~AllDigits(body) THEN [ok |-> FALSE, n |-> 0]
        ELSE [ok |-> TRUE, n |-> IF neg THEN -DecValue(body) ELSE DecValue(body)]

\* strconv.ParseFloat on decimal literals: [sign] digits [ "." digits ] with at
\* least one digit (exponents, hex floats, inf and nan are outside the strings
\* of the model); the result is the float64 as integer part n and fraction f
ParseFloat(s) ==
    LET signed == s # << >> /\ s[1] \in {43, 45}
        body == IF signed THEN Tail(s) ELSE s
        neg == signed /\ s[1] = 45
        dots == {i \in 1 .. Len(body) : body[i] = 46}
        dot == IF dots = {} THEN Len(body) + 1 ELSE CHOOSE i \in dots : TRUE
        ip == SubSeq(body, 1, dot - 1)
        fp == SubSeq(body, dot + 1, Len(body))
        fpad == SubSeq(fp \o Rep(48, FracDigits), 1, FracDigits)
        sgn == IF neg THEN -1 ELSE 1
    IN  IF Cardinality(dots) > 1 \/ ~AllDigits(ip) \/ ~AllDigits(fp)
           \/ Len(ip) + Len(fp) = 0
        THEN [ok |-> FALSE, n |-> 0, f |-> 0]
        ELSE [ok |-> TRUE, n |-> sgn * DecValue(ip), f |-> sgn * DecValue(fpad)]

\* fmt.Sprintf("%.3f", x): x rounded to the nearest thousandth (ties to even),
\* printed with exactly three fractional digits
FormatF3(x) ==
    LET a == IF x.n < 0 THEN -x.n ELSE x.n
        b == IF x.f < 0 THEN -x.f ELSE x.f
        unit == Scale \div 1000
        q == b \div unit
        r == b % unit
        m == IF 2 * r > unit \/ (2 * r = unit /\ q % 2 = 1) THEN q + 1 ELSE q
        frac == DecDigits(m % 1000)
    IN  (IF x.n < 0 \/ x.f < 0 THEN << 45 >> ELSE << >>)
        \o DecDigits(a + (m \div 1000)) \o << 46 >>
        \o Rep(48, 3 - Len(frac)) \o frac

\* the quotient of num by den > 0, rounded toward zero
QuoTrunc(num, den) ==
    IF num >= 0 THEN num \div den ELSE -((-num) \div den)

\* x * k for a float64 x and a whole k > 0
FloatMul(x, k) ==
    LET carry == QuoTrunc(x.f * k, Scale)
    IN  [n |-> x.n * k + carry, f |-> x.f * k - carry * Scale]

\* FloatToInt rounding down instead of toward zero
FloatToIntFloor(x) == IF x.f < 0 THEN x.n - 1 ELSE x.n

\* int(x): the conversion of a float64 to int drops the fraction (it truncates
\* toward zero)
FloatToInt(x) == x.n

\* float64(i)
IntToFloat(i) == [n |-> i, f |-> 0]

\* x / k for a whole x and a k that divides Scale
IntOverToFloat(x, k) ==
    LET q == QuoTrunc(x, k)
    IN  [n |-> q, f |-> (x - q * k) * (Scale \div k)]

\* ----------------------------------------------------------------- values
\* Record.Value is Go's `any`: kind is its dynamic type, and one of n (an int),
\* n and f (a float64), s (a string) and items (a []StructItem) holds the value
IntV(n) == [kind |-> "int", n |-> n, f |-> 0, s |-> << >>, items |-> << >>]
StrV(s) == [kind |-> "string", n |-> 0, f |-> 0, s |-> s, items |-> << >>]
F64V(x) == [kind |-> "float64", n |-> x.n, f |-> x.f, s |-> << >>, items |-> << >>]
ItemsV(it) == [kind |-> "[]StructItem", n |-> 0, f |-> 0, s |-> << >>, items |-> it]
\* the float64 a value holds
F64Of(v) == [n |-> v.n, f |-> v.f]
\* the nil interface value of a zero Record
NilV == [kind |-> "nil", n |-> 0, f |-> 0, s |-> << >>, items |-> << >>]
\* a bool, which Scan has no case for
BoolV == [kind |-> "bool", n |-> 0, f |-> 0, s |-> << >>, items |-> << >>]
\* no value (the call did not return)
NoV == [kind |-> "none", n |-> 0, f |-> 0, s |-> << >>, items |-> << >>]

\* type Record struct { size int; Type uint8; Value any }
Rec(t, v, sz) == [Type |-> t, Value |-> v, size |-> sz]

\* type StructItem struct { Key string; Value Record }
Item(k, r) == [Key |-> k, Value |-> r]

\* the outcome of a call: a returned value, a returned error, or a run-time
\* panic (a type assertion x.(T) without the comma-ok form panics when the
\* dynamic type of x is not T)
Ok(v) == [outcome |-> "ok", err |-> "", val |-> v]
Fail(e, v) == [outcome |-> "error", err |-> e, val |-> v]
Panic == [outcome |-> "panic", err |-> "interface conversion", val |-> NoV]

ErrNotString == "type error: expected type string"
ErrNotInt == "type error: expected type int"
ErrNotDouble == "type error: expected type double"
ErrNotStruct == "type error: expected type struct"
ErrCannotConvert == "type error: cannot convert"
ErrSyntax == "strconv: invalid syntax"
ErrInvalidDest == "invalid dest type"
ErrValueNotInt == "type error: expected type int value"
ErrValueNotString == "type error: expected type string value"
ErrValueNotFloat == "type error: expected type float64"
ErrNotImplemented == "type error: type not implemented"

\* ------------------------------------------------------- strict accessors
\* func (record Record) String() (string, error)
String(record) ==
    IF record.Type # TypeString THEN Fail(ErrNotString, StrV(<< >>))
    ELSE IF record.Value.kind = "string" THEN Ok(StrV(record.Value.s))
    ELSE Panic

\* func (record Record) Int() (int, error)
Int_(record) ==
    IF record.Type # TypeInt THEN Fail(ErrNotInt, IntV(0))
    ELSE IF record.Value.kind = "int" THEN Ok(IntV(record.Value.n))
    ELSE Panic

\* func (record Record) Double() (float64, error)
Double(record) ==
    IF record.Type # TypeDouble THEN Fail(ErrNotDouble, F64V(IntToFloat(0)))
    ELSE IF record.Value.kind = "float64" THEN Ok(F64V(F64Of(record.Value)))
    ELSE Panic

\* ------------------------------------------------------------------- Scan
\* the outcome of a call through a *Record receiver: what the call returned,
\* the destination or writer it was given, and the record it leaves behind
Done(e, out, record) ==
    [outcome |-> IF e = "" THEN "ok" ELSE "error", err |-> e, out |-> out,
     record |-> record]
Crash(out, record) ==
    [outcome |-> "panic", err |-> "interface conversion", out |-> out,
     record |-> record]

\* func (record *Record) StructItems() ([]StructItem, error)
StructItems(record) ==
    IF record.Type # TypeStruct
    THEN Done(ErrNotStruct, ItemsV(<< >>), record)
    ELSE IF record.Value.kind = "[]StructItem"
         THEN Done("", ItemsV(record.Value.items), record)
         ELSE Crash(NoV, record)

\* case *string
ScanString(record, dest) ==
    LET v == record.Value IN
    IF record.Type = TypeString THEN
        IF v.kind = "string" THEN Done("", StrV(v.s), record) ELSE Crash(dest, record)
    ELSE IF record.Type = TypeInt THEN
        IF v.kind = "int" THEN Done("", StrV(Itoa(v.n)), record) ELSE Crash(dest, record)
    ELSE IF record.Type = TypeDouble THEN
        IF v.kind = "float64" THEN Done("", StrV(FormatF3(F64Of(v))), record)
        ELSE Crash(dest, record)
    ELSE Done(ErrCannotConvert, dest, record)

\* ScanInt with a coercion from Fixed, dropping the fraction
ScanIntTruncatesDouble(record, dest) ==
    LET v == record.Value IN
    IF record.Type = TypeString THEN
        IF v.kind # "string" THEN Crash(dest, record)
        ELSE IF Atoi(v.s).ok THEN Done("", IntV(Atoi(v.s).n), record)
        ELSE Done(ErrSyntax, dest, record)
    ELSE IF record.Type = TypeInt THEN
        IF v.kind = "int" THEN Done("", IntV(v.n), record) ELSE Crash(dest, record)
    ELSE IF record.Type = TypeDouble THEN
        IF v.kind = "float64" THEN Done("", IntV(v.n), record) ELSE Crash(dest, record)
    ELSE Done(ErrCannotConvert, dest, record)

\* case *int
ScanInt(record, dest) ==
    LET v == record.Value IN
    IF record.Type = TypeString THEN
        IF v.kind # "string" THEN Crash(dest, record)
        ELSE IF Atoi(v.s).ok THEN Done("", IntV(Atoi(v.s).n), record)
        ELSE Done(ErrSyntax, dest, record)
    ELSE IF record.Type = TypeInt THEN
        IF v.kind = "int" THEN Done("", IntV(v.n), record) ELSE Crash(dest, record)
    ELSE Done(ErrCannotConvert, dest, record)

\* case *float64
ScanFloat(record, dest) ==
    LET v == record.Value IN
    IF record.Type = TypeString THEN
        IF v.kind # "string" THEN Crash(dest, record)
        ELSE IF ParseFloat(v.s).ok THEN Done("", F64V(ParseFloat(v.s)), record)
        ELSE Done(ErrSyntax, dest, record)
    ELSE IF record.Type = TypeInt THEN
        IF v.kind = "int" THEN Done("", F64V(IntToFloat(v.n)), record)
        ELSE Crash(dest, record)
    ELSE IF record.Type = TypeDouble THEN
        IF v.kind = "float64" THEN Done("", F64V(F64Of(v)), record)
        ELSE Crash(dest, record)
    ELSE Done(ErrCannotConvert, dest, record)

\* case *[]StructItem
ScanItems(record, dest) ==
    IF record.Type # TypeStruct THEN Done(ErrCannotConvert, dest, record)
    ELSE IF record.Value.kind = "[]StructItem"
         THEN Done("", ItemsV(record.Value.items), record)
         ELSE Crash(dest, record)

\* func (record *Record) Scan(dest any) error; dest.kind is the type dest
\* points at and dest holds the value there before the call
Scan(record, dest) ==
    IF dest.kind = "string" THEN ScanString(record, dest)
    ELSE IF dest.kind = "int" THEN ScanInt(record, dest)
    ELSE IF dest.kind = "float64" THEN ScanFloat(record, dest)
    ELSE IF dest.kind = "[]StructItem" THEN ScanItems(record, dest)
    ELSE Done(ErrInvalidDest, dest, record)

\* ----------------------------------------------------------------- Encode
\* EncodeFrame taking the short form up to and including ShortLimit bytes
EncodeFrameShortInclusive(record, value, w) ==
    LET sizeOfValue == Len(value)
        sizeBytes == intToBytesBE(sizeOfValue)
    IN  IF sizeOfValue <= ShortLimit
        THEN Done("", w \o << BitOr(ToUint8(sizeOfValue * 16), record.Type) >> \o value,
                  record)
        ELSE Done("",
                  w \o << BitOr(BitOr(128, ToUint8(Len(sizeBytes) * 16)), record.Type) >>
                    \o sizeBytes \o value,
                  record)

\* EncodeFrame putting the payload size, not the count of size bytes, in the
\* size field of the extended header
EncodeFrameSizeInHeader(record, value, w) ==
    LET sizeOfValue == Len(value)
        sizeBytes == intToBytesBE(sizeOfValue)
    IN  IF sizeOfValue < ShortLimit
        THEN Done("", w \o << BitOr(ToUint8(sizeOfValue * 16), record.Type) >> \o value,
                  record)
        ELSE Done("",
                  w \o << BitOr(BitOr(128, ToUint8(sizeOfValue * 16)), record.Type) >>
                    \o sizeBytes \o value,
                  record)

\* the header, the size bytes and the payload, written to w in one piece
EncodeFrame(record, value, w) ==
    LET sizeOfValue == Len(value)
        sizeBytes == intToBytesBE(sizeOfValue)
    IN  IF sizeOfValue < ShortLimit
        THEN Done("", w \o << BitOr(ToUint8(sizeOfValue * 16), record.Type) >> \o value,
                  record)
        ELSE Done("",
                  w \o << BitOr(BitOr(128, ToUint8(Len(sizeBytes) * 16)), record.Type) >>
                    \o sizeBytes \o value,
                  record)

\* EncodeInt whose shortcut writes 0 as a one-byte payload
EncodeIntZeroAsByte(record, w) ==
    LET v == record.Value IN
    IF v.kind # "int" THEN Done(ErrValueNotInt, w, record)
    ELSE IF v.n = 0 THEN Done("", w \o << 16, 0 >>, record)
    ELSE EncodeFrame(record, intToBytesBE(v.n), w)

\* case TypeInt, with its shortcut for 0
EncodeInt(record, w) ==
    LET v == record.Value IN
    IF v.kind # "int" THEN Done(ErrValueNotInt, w, record)
    ELSE IF v.n = 0 THEN Done("", w \o << 0 >>, record)
    ELSE EncodeFrame(record, intToBytesBE(v.n), w)

\* EncodeString without the terminating 0x00
EncodeStringNoTerminator(record, w) ==
    LET v == record.Value IN
    IF v.kind # "string" THEN Done(ErrValueNotString, w, record)
    ELSE EncodeFrame(record, v.s, w)

\* case TypeString
EncodeString(record, w) ==
    LET v == record.Value IN
    IF v.kind # "string" THEN Done(ErrValueNotString, w, record)
    ELSE EncodeFrame(record, v.s \o << 0 >>, w)

\* EncodeDouble keeping the fixed-point value it wrote in the record
EncodeDoubleStoresFixed(record, w) ==
    LET v == record.Value
        fixed == FloatToInt(FloatMul(F64Of(v), 1000))
    IN  IF v.kind # "float64" THEN Done(ErrValueNotFloat, w, record)
        ELSE EncodeFrame([record EXCEPT !.Value = F64V(IntOverToFloat(fixed, 1000))],
                         intToBytesBE(fixed), w)

\* case TypeDouble
EncodeDouble(record, w) ==
    LET v == record.Value IN
    IF v.kind # "float64" THEN Done(ErrValueNotFloat, w, record)
    ELSE EncodeFrame(record, intToBytesBE(FloatToInt(FloatMul(F64Of(v), 1000))), w)

\* the default case writing a header with no payload
EncodeOtherWritesHeader(record, w) == EncodeFrame(record, << >>, w)

\* default
EncodeOther(record, w) == Done(ErrNotImplemented, w, record)

\* func (record *Record) Encode(w io.Writer) error; w is what the writer
\* holds (a writer that accepts every write)
Encode(record, w) ==
    IF record.Type = TypeInt THEN EncodeInt(record, w)
    ELSE IF record.Type = TypeString THEN EncodeString(record, w)
    ELSE IF record.Type = TypeDouble THEN EncodeDouble(record, w)
    ELSE EncodeOther(record, w)

\* ----------------------------------------------------------------- Decode
ErrMalformedRecord == "malformed record"
ErrUnsupportedType == "unsupported type"

Decoded(record, n) == [outcome |-> "ok", err |-> "", record |-> record, consumed |-> n]
DecodeFail(e) ==
    [outcome |-> "error", err |-> e, record |-> Rec(0, NilV, 0), consumed |-> 0]

\* a Text payload without its terminating 0x00
StripTerminator(payload) ==
    IF payload # << >> /\ payload[Len(payload)] = 0
    THEN SubSeq(payload, 1, Len(payload) - 1)
    ELSE payload

RECURSIVE Decode(_, _)
RECURSIVE DecodePairs(_, _, _)

\* the key/value pairs of a struct payload, from position pos (1-based) on;
\* a pair that does not end inside the payload is malformed
DecodePairs(payload, pos, items) ==
    IF pos > Len(payload) THEN [ok |-> TRUE, err |-> "", items |-> items]
    ELSE
        LET k == Decode(payload, pos - 1) IN
        IF k.outcome # "ok" THEN [ok |-> FALSE, err |-> k.err, items |-> << >>]
        ELSE IF k.record.Type # TypeString
        THEN [ok |-> FALSE, err |-> ErrMalformedRecord, items |-> << >>]
        ELSE
            LET v == Decode(payload, pos - 1 + k.consumed) IN
            IF v.outcome # "ok" THEN [ok |-> FALSE, err |-> v.err, items |-> << >>]
            ELSE DecodePairs(payload, pos + k.consumed + v.consumed,
                             Append(items, Item(k.record.Value.s, v.record)))

\* Decode(bytes, offset) -> (record, bytesConsumed): header, optional size
\* bytes, payload
Decode(bytes, offset) ==
    IF offset >= Len(bytes) THEN DecodeFail(ErrMalformedRecord)
    ELSE
        LET header == bytes[offset + 1]
            extended == header \div 128 = 1
            sizeField == (header \div 16) % 8
            tag == header % 16
            sizeLen == IF extended THEN sizeField ELSE 0
        IN
        IF offset + 1 + sizeLen > Len(bytes) THEN DecodeFail(ErrMalformedRecord)
        ELSE
            LET L == IF extended
                     THEN ValueBE(SubSeq(bytes, offset + 2, offset + 1 + sizeLen))
                     ELSE sizeField
                start == offset + 1 + sizeLen
                payload == SubSeq(bytes, start + 1, start + L)
                n == 1 + sizeLen + L
            IN
            IF start + L > Len(bytes) THEN DecodeFail(ErrMalformedRecord)
            ELSE IF tag = TypeInt THEN
                IF L > IntBytes THEN DecodeFail(ErrMalformedRecord)
                ELSE Decoded(Rec(TypeInt, IntV(bytesToIntBE(payload)), L), n)
            ELSE IF tag = TypeString THEN
                Decoded(Rec(TypeString, StrV(StripTerminator(payload)), L), n)
            ELSE IF tag = TypeDouble THEN
                IF L > IntBytes THEN DecodeFail(ErrMalformedRecord)
                ELSE Decoded(Rec(TypeDouble,
                                 F64V(IntOverToFloat(bytesToIntBE(payload), 1000)), L),
                             n)
            ELSE IF tag = TypeStruct THEN
                LET ps == DecodePairs(payload, 1, << >>) IN
                IF ps.ok THEN Decoded(Rec(TypeStruct, ItemsV(ps.items), L), n)
                ELSE DecodeFail(ps.err)
            ELSE DecodeFail(ErrUnsupportedType)

\* ------------------------------------------------------------ the inputs
\* tags outside the four the package names (Type is a uint8)
OtherTags == {4, 200}
Tags == {TypeInt, TypeString, TypeDouble, TypeStruct} \cup OtherTags

IntValues ==
    {0, 1, 127, 128, 255, 256, 65535, 2147483647, -1, -128, -2147483647}

\* "", "a", "7", "-12", "+5", "1.5", "-0.25", "abcdef", "abcdefg",
\* and runs of "a" around the length whose payload size needs two bytes
Strings ==
    {<< >>, << 97 >>, << 55 >>, << 45, 49, 50 >>, << 43, 53 >>, << 49, 46, 53 >>,
     << 45, 48, 46, 50, 53 >>,
     << 97, 98, 99, 100, 101, 102 >>, << 97, 98, 99, 100, 101, 102, 103 >>,
     Rep(97, 254), Rep(97, 255)}

\* the float64 with the decimal expansion n / 10^5
Dec5(n) == IntOverToFloat(n, 10 ^ 5)

\* x is a multiple of 1/32: a decimal of at most five fractional digits that is
\* a float64, with x * 1000 exact in float64
IsExactFloat(x) == (x.f * 32) % Scale = 0

\* 0, 0.5, 1.03125, -1.03125, 1.96875, -0.03125, -1.5
FloatValues ==
    {Dec5(0), Dec5(50000), Dec5(103125), Dec5(-103125), Dec5(196875), Dec5(-3125),
     Dec5(-150000)}

IntRecord(n) == Rec(TypeInt, IntV(n), 0)

\* [("a", 1), ("b", 2), ("a", 3)]
SomeItems ==
    << Item(<< 97 >>, IntRecord(1)), Item(<< 98 >>, IntRecord(2)),
       Item(<< 97 >>, IntRecord(3)) >>

Values ==
    {IntV(n) : n \in IntValues} \cup {StrV(s) : s \in Strings}
    \cup {F64V(x) : x \in FloatValues} \cup {ItemsV(<< >>), ItemsV(SomeItems), NilV}

\* the records a caller can write down: Type and Value are exported fields and
\* nothing ties the one to the other; size is set by the decoder only
Records == {Rec(t, v, 0) : t \in Tags, v \in Values}

\* the records a caller builds after the first one
LaterRecords ==
    {Rec(TypeString, StrV(<< >>), 0),
     Rec(TypeString, StrV(<< 97, 98, 99, 100, 101, 102 >>), 0),
     Rec(TypeStruct, ItemsV(SomeItems), 0)}

\* what the variable a Scan destination points at holds before the call
DestValues ==
    {StrV(<< 111, 108, 100 >>), IntV(99), F64V(Dec5(950000)),
     ItemsV(<< Item(<< 122 >>, IntRecord(9)) >>), BoolV}

\* ---------------------------------------------------------------- state
VARIABLES
    record,     \* the record under use
    orig,       \* the record as it was constructed
    w,          \* the bytes the writer holds
    written,    \* per successful Encode: the record, and where its bytes lie in w
    rpos,       \* the read position of the decoder in w
    dec,        \* the last Decode: which Encode's bytes it read, and its result
    last,       \* the last call on the record and its outcome
    nextCookie, \* the packet framer's token generator
    issued,     \* the tokens WritePacket has returned
    outbox,     \* the request packets written to the connection
    inbox,      \* the reply packets the connection delivers, in order
    reads       \* per ReadPacket: the token expected, the packet read, the outcome

codecVars == << record, orig, w, written, rpos, dec, last >>
packetVars == << nextCookie, issued, outbox, inbox, reads >>
vars == << record, orig, w, written, rpos, dec, last,
           nextCookie, issued, outbox, inbox, reads >>

NoCall ==
    [op |-> "none", outcome |-> "ok", err |-> "", val |-> NoV, before |-> NoV,
     wBefore |-> << >>]
Call(op, r, val, before, wb) ==
    [op |-> op, outcome |-> r.outcome, err |-> r.err, val |-> val,
     before |-> before, wBefore |-> wb]

NoDecode == [k |-> 0, res |-> DecodeFail("")]

\* --------------------------------------------------------- codec actions
InitCodec ==
    /\ record \in Records
    /\ orig = record
    /\ w = << >>
    /\ written = << >>
    /\ rpos = 0
    /\ dec = NoDecode
    /\ last = NoCall

\* the caller constructs another record
NewRecord ==
    \E r \in LaterRecords :
        /\ r # record
        /\ record' = r
        /\ orig' = r
        /\ last' = NoCall
        /\ UNCHANGED << w, written, rpos, dec >>
        /\ UNCHANGED packetVars

\* record.String(); the receiver is a copy of the record
CallString ==
    LET r == String(record) IN
    /\ last' = Call("String", r, r.val, NoV, w)
    /\ UNCHANGED << record, orig, w, written, rpos, dec >>
    /\ UNCHANGED packetVars

\* record.Int()
CallInt ==
    LET r == Int_(record) IN
    /\ last' = Call("Int", r, r.val, NoV, w)
    /\ UNCHANGED << record, orig, w, written, rpos, dec >>
    /\ UNCHANGED packetVars

\* record.Double()
CallDouble ==
    LET r == Double(record) IN
    /\ last' = Call("Double", r, r.val, NoV, w)
    /\ UNCHANGED << record, orig, w, written, rpos, dec >>
    /\ UNCHANGED packetVars

\* record.StructItems()
CallStructItems ==
    LET r == StructItems(record) IN
    /\ last' = Call("StructItems", r, r.out, NoV, w)
    /\ record' = r.record
    /\ UNCHANGED << orig, w, written, rpos, dec >>
    /\ UNCHANGED packetVars

\* record.Scan(&d)
CallScan ==
    \E d \in DestValues :
        LET r == Scan(record, d) IN
        /\ last' = Call("Scan", r, r.out, d, w)
        /\ record' = r.record
        /\ UNCHANGED << orig, w, written, rpos, dec >>
        /\ UNCHANGED packetVars

\* record.Encode(w)
CallEncode ==
    /\ Len(written) < MaxEncodes
    /\ LET r == Encode(record, w) IN
        /\ last' = Call("Encode", r, NoV, NoV, w)
        /\ record' = r.record
        /\ w' = r.out
        /\ written' =
              IF r.outcome = "ok"
              THEN Append(written, [record |-> record, from |-> Len(w), to |-> Len(r.out)])
              ELSE written
        /\ UNCHANGED << orig, rpos, dec >>
        /\ UNCHANGED packetVars

\* the decoder reads the next record from the bytes written
ReadRecord ==
    /\ dec.k < Len(written)
    /\ dec.k = 0 \/ dec.res.outcome = "ok"
    /\ LET res == Decode(w, rpos) IN
        /\ dec' = [k |-> dec.k + 1, res |-> res]
        /\ rpos' = IF res.outcome = "ok" THEN rpos + res.consumed ELSE rpos
    /\ UNCHANGED << record, orig, w, written, last >>
    /\ UNCHANGED packetVars

\* the caller goes on with the record the decoder constructed (a Fixed one
\* when the arithmetic of the model is exact for it)
UseDecoded ==
    /\ dec.k > 0
    /\ dec.res.outcome = "ok"
    /\ dec.res.record.Type = TypeDouble => IsExactFloat(F64Of(dec.res.record.Value))
    /\ record # dec.res.record
    /\ record' = dec.res.record
    /\ orig' = dec.res.record
    /\ last' = NoCall
    /\ UNCHANGED << w, written, rpos, dec >>
    /\ UNCHANGED packetVars

NextCodec ==
    \/ NewRecord
    \/ CallString
    \/ CallInt
    \/ CallDouble
    \/ CallStructItems
    \/ CallScan
    \/ CallEncode
    \/ ReadRecord
    \/ UseDecoded

IdlePacket ==
    /\ nextCookie = 1
    /\ issued = {}
    /\ outbox = << >>
    /\ inbox = << >>
    /\ reads = << >>

Init == InitCodec /\ IdlePacket

Next == NextCodec

Spec == Init /\ [][Next]_vars

\* ------------------------------------------------------------ the framer
\* the fixed marker and version indicator of the envelope
Marker == "binrpc"

ErrMalformedPacket == "malformed packet"
ErrCookieMismatch == "cookie mismatch"
ErrIncompleteResponse == "incomplete response"

\* a packet on the connection: the envelope (marker, declared body length,
\* token) and the body bytes that arrive
Packet(mk, n, cookie, body) == [marker |-> mk, len |-> n, cookie |-> cookie, body |-> body]

NoPacket == Packet("", 0, 0, << >>)

RECURSIVE EncodeAll(_, _)
\* the records of a request body, encoded one after another
EncodeAll(records, out) ==
    IF records = << >> THEN Done("", out, << >>)
    ELSE LET r == Encode(Head(records), out) IN
         IF r.outcome # "ok" THEN Done(r.err, << >>, << >>)
         ELSE EncodeAll(Tail(records), r.out)

\* WritePacket(w, method, args...) with the token the generator gives: the
\* body is the Text record of the method and one record per argument; the
\* envelope carries its length and the token
WritePacket(method, args, cookie) ==
    LET body == EncodeAll(<< Rec(TypeString, StrV(method), 0) >> \o args, << >>) IN
    IF body.outcome # "ok"
    THEN [outcome |-> "error", err |-> body.err, packet |-> NoPacket, cookie |-> 0]
    ELSE [outcome |-> "ok", err |-> "",
          packet |-> Packet(Marker, Len(body.out), cookie, body.out), cookie |-> cookie]

RECURSIVE DecodeAll(_, _, _)
\* the top-level records of a body, decoded until the body is used up
DecodeAll(body, offset, records) ==
    IF offset >= Len(body) THEN [outcome |-> "ok", err |-> "", records |-> records]
    ELSE LET d == Decode(body, offset) IN
         IF d.outcome # "ok" THEN [outcome |-> "error", err |-> d.err, records |-> << >>]
         ELSE DecodeAll(body, offset + d.consumed, Append(records, d.record))

\* ReadPacket without the comparison of the token
ReadPacketAnyCookie(packet, expected) ==
    IF packet.marker # Marker
    THEN [outcome |-> "error", err |-> ErrMalformedPacket, records |-> << >>]
    ELSE IF Len(packet.body) < packet.len
    THEN [outcome |-> "error", err |-> ErrIncompleteResponse, records |-> << >>]
    ELSE DecodeAll(SubSeq(packet.body, 1, packet.len), 0, << >>)

\* ReadPacket(r, cookie): the envelope is read and checked, the token is
\* compared with the expected one, and then the body is decoded
ReadPacket(packet, expected) ==
    IF packet.marker # Marker
    THEN [outcome |-> "error", err |-> ErrMalformedPacket, records |-> << >>]
    ELSE IF packet.cookie # expected
    THEN [outcome |-> "error", err |-> ErrCookieMismatch, records |-> << >>]
    ELSE IF Len(packet.body) < packet.len
    THEN [outcome |-> "error", err |-> ErrIncompleteResponse, records |-> << >>]
    ELSE DecodeAll(SubSeq(packet.body, 1, packet.len), 0, << >>)

\* "tm.stats" and "a"
Methods == {<< 116, 109, 46, 115, 116, 97, 116, 115 >>, << 97 >>}

\* the argument lists of the requests: none, "all", (5, 1.5), and a struct,
\* which Encode refuses
ArgLists ==
    {<< >>,
     << Rec(TypeString, StrV(<< 97, 108, 108 >>), 0) >>,
     << IntRecord(5), Rec(TypeDouble, F64V(Dec5(150000)), 0) >>,
     << Rec(TypeStruct, ItemsV(SomeItems), 0) >>}

\* reply bodies the decoder accepts: no record; the struct {"kos": 42}; the
\* Integers 1 and 0
GoodBodies ==
    {<< >>, << 115, 65, 107, 111, 115, 0, 16, 42 >>, << 16, 1, 0 >>}

\* a reply body with a record of a tag the decoder does not know
BadBodies == {<< 4 >>}

\* a token no request was given (the generator starts at 1)
ForeignCookies == {0}

\* ------------------------------------------------------- codec properties
\* the bytes the k-th successful Encode wrote
WrittenBytes(k) == SubSeq(w, written[k].from + 1, written[k].to)

\* the record the last Decode read the bytes of
DecodedFrom == written[dec.k].record

\* truncate(x * 1000), stated by its bounds: the whole t nearest to zero with
\* |t| <= |x * 1000| < |t| + 1
Truncate1000(x) ==
    x.n * 1000
    + (CHOOSE d \in -1000 .. 1000 :
          IF x.n < 0 \/ x.f < 0
          THEN (d - 1) * Scale < x.f * 1000 /\ x.f * 1000 <= d * Scale
          ELSE d * Scale <= x.f * 1000 /\ x.f * 1000 < (d + 1) * Scale)

\* the payload the wire format gives a record Encode accepts
WirePayload(r) ==
    IF r.Type = TypeInt THEN intToBytesBE(r.Value.n)
    ELSE IF r.Type = TypeString THEN r.Value.s \o << 0 >>
    ELSE intToBytesBE(Truncate1000(F64Of(r.Value)))

\* the header layout of bytes, the encoding of a record of tag t with payload p
WireLayout(bytes, t, p) ==
    LET L == Len(p)
        h == bytes[1]
        K == (h \div 16) % 8
    IN  /\ h % 16 = t
        /\ IF L < 8
           THEN /\ h \div 128 = 0
                /\ K = L
                /\ bytes = << h >> \o p
           ELSE /\ h \div 128 = 1
                /\ K \in 1 .. 7
                /\ Len(bytes) = 1 + K + L
                /\ bytes[2] # 0
                /\ ValueBE(SubSeq(bytes, 2, K + 1)) = L
                /\ \A j \in 1 .. K - 1 : ValueBE(SubSeq(bytes, 2 + K - j, K + 1)) # L
                /\ SubSeq(bytes, K + 2, Len(bytes)) = p

\* C1: decoding what Encode wrote for an Integer record holding v gives an
\* Integer record holding v and consumes exactly the bytes Encode wrote
C1_IntegerRoundTrip ==
    (dec.k > 0 /\ DecodedFrom.Type = TypeInt) =>
        /\ dec.res.outcome = "ok"
        /\ dec.res.record.Type = TypeInt
        /\ dec.res.record.Value = IntV(DecodedFrom.Value.n)
        /\ dec.res.consumed = written[dec.k].to - written[dec.k].from

\* a negative Integer, whose payload is the full word and takes the extended
\* header, written twice and read back at the second place
C1_Witness ==
    /\ dec.k = 2
    /\ DecodedFrom = Rec(TypeInt, IntV(-1), 0)
    /\ WrittenBytes(2)[1] >= 128
    /\ dec.res.outcome = "ok"
    /\ dec.res.record.Value = IntV(-1)
    /\ dec.res.consumed = 10

\* C2: a payload of L < 8 bytes follows a header with bit 7 clear, bits 4-6 = L
\* and bits 0-3 the tag; a payload of L >= 8 bytes follows a header with bit 7
\* set, bits 4-6 = K <= 7 and bits 0-3 the tag, and the K bytes that are the
\* minimal big-endian form of L
C2_HeaderLayout ==
    \A k \in 1 .. Len(written) :
        WireLayout(WrittenBytes(k), written[k].record.Type, WirePayload(written[k].record))

\* an 8-byte payload in the extended form followed by a 7-byte payload in the
\* short form
C2_Witness ==
    /\ Len(written) = 2
    /\ Len(WirePayload(written[1].record)) = 8
    /\ WrittenBytes(1)[1] = 128 + 16 + TypeString
    /\ WrittenBytes(1)[2] = 8
    /\ Len(WirePayload(written[2].record)) = 7
    /\ WrittenBytes(2)[1] = 7 * 16 + TypeString

\* C3: Encode of a record whose tag is not Integer, Text or Fixed returns the
\* not-implemented type error and writes nothing
C3_UnsupportedTypeWritesNothing ==
    (last.op = "Encode" /\ record.Type \notin {TypeInt, TypeString, TypeDouble}) =>
        /\ last.outcome = "error"
        /\ last.err = ErrNotImplemented
        /\ w = last.wBefore

\* Encode of a Struct record on a writer that already holds a record
C3_Witness ==
    /\ last.op = "Encode"
    /\ record.Type = TypeStruct
    /\ record.Value.kind = "[]StructItem"
    /\ last.outcome = "error"
    /\ w # << >>
    /\ w = last.wBefore

\* the kind of value each strict accessor returns
AccessorKind ==
    [String |-> "string", Int |-> "int", Double |-> "float64",
     StructItems |-> "[]StructItem"]

\* C4: a strict accessor called on a record whose payload variant is not the
\* accessor's kind returns a type error: it neither returns a value nor panics
C4_StrictAccessorsFailClosed ==
    (last.op \in DOMAIN AccessorKind /\ record.Value.kind # AccessorKind[last.op]) =>
        /\ last.outcome = "error"
        /\ last.err \in {ErrNotString, ErrNotInt, ErrNotDouble, ErrNotStruct}

\* the kind a tag stands for
TagKind(t) ==
    IF t = TypeInt THEN "int"
    ELSE IF t = TypeString THEN "string"
    ELSE IF t = TypeDouble THEN "float64"
    ELSE IF t = TypeStruct THEN "[]StructItem"
    ELSE "other"

\* the copies and coercions of the conversion layer, as << record kind, target >>
Coercions ==
    {<< "int", "int" >>, << "string", "string" >>, << "float64", "float64" >>,
     << "[]StructItem", "[]StructItem" >>,
     << "int", "string" >>, << "string", "int" >>, << "float64", "string" >>,
     << "string", "float64" >>, << "int", "float64" >>}

\* the pairs of record kind and target kind with no coercion
NoCoercion ==
    {<< "[]StructItem", "string" >>, << "[]StructItem", "int" >>,
     << "[]StructItem", "float64" >>, << "int", "[]StructItem" >>,
     << "string", "[]StructItem" >>, << "float64", "[]StructItem" >>,
     << "float64", "int" >>}

C7_FixedTruncates ==
    (dec.k > 0 /\ DecodedFrom.Type = TypeDouble) =>
        LET x == F64Of(DecodedFrom.Value)
            t == Truncate1000(x)
            asInt == Encode(IntRecord(t), << >>).out
            bytes == WrittenBytes(dec.k)
        IN  /\ bytes[1] - TypeDouble = asInt[1] - TypeInt
            /\ Tail(bytes) = Tail(asInt)
            /\ dec.res.outcome = "ok"
            /\ dec.res.record.Type = TypeDouble
            /\ dec.res.record.Value = F64V(IntOverToFloat(t, 1000))
            /\ x.f % (Scale \div 1000) # 0 => dec.res.record.Value # DecodedFrom.Value

\* -1.03125 is written as -1031 and read back as -1.031
C7_Witness ==
    /\ dec.k > 0
    /\ DecodedFrom.Type = TypeDouble
    /\ DecodedFrom.Value = F64V(Dec5(-103125))
    /\ Truncate1000(Dec5(-103125)) = -1031
    /\ dec.res.outcome = "ok"
    /\ dec.res.record.Value = F64V(Dec5(-103100))

\* C8: for a Text record holding s, Encode writes a payload of Len(s) + 1
\* bytes, s followed by one 0x00, and decoding it gives s
C8_TextRoundTrip ==
    (dec.k > 0 /\ DecodedFrom.Type = TypeString) =>
        LET s == DecodedFrom.Value.s
            bytes == WrittenBytes(dec.k)
            L == Len(s) + 1
        IN  /\ Len(bytes) > L
            /\ SubSeq(bytes, Len(bytes) - L + 1, Len(bytes)) = s \o << 0 >>
            /\ IF L < 8 THEN bytes[1] = L * 16 + TypeString /\ Len(bytes) = 1 + L
               ELSE /\ bytes[1] >= 128
                    /\ ValueBE(SubSeq(bytes, 2, Len(bytes) - L)) = L
            /\ dec.res.outcome = "ok"
            /\ dec.res.record.Type = TypeString
            /\ dec.res.record.Value = StrV(s)
            /\ dec.res.consumed = Len(bytes)

\* a 7-byte string under the extended header, then the empty string with its
\* 1-byte payload, both read back
C8_Witness ==
    /\ dec.k = 2
    /\ Len(written[1].record.Value.s) = 7
    /\ WrittenBytes(1)[1] >= 128
    /\ DecodedFrom = Rec(TypeString, StrV(<< >>), 0)
    /\ WrittenBytes(2) = << 16 + TypeString, 0 >>
    /\ dec.res.outcome = "ok"
    /\ dec.res.record.Value = StrV(<< >>)

\* C9: for Integer 0 the shortcut of Encode writes the bytes the general path
\* writes for an empty payload: one header byte with the extended flag clear,
\* size 0 and the Integer tag
C9_ZeroShortcut ==
    (last.op = "Encode" /\ record.Type = TypeInt /\ record.Value = IntV(0)) =>
        /\ last.outcome = "ok"
        /\ w = EncodeFrame(record, intToBytesBE(0), last.wBefore).out
        /\ Len(w) = Len(last.wBefore) + 1
        /\ w[Len(w)] \div 128 = 0
        /\ (w[Len(w)] \div 16) % 8 = 0
        /\ w[Len(w)] % 16 = TypeInt

\* Integer 0 encoded after another record
C9_Witness ==
    /\ last.op = "Encode"
    /\ record = Rec(TypeInt, IntV(0), 0)
    /\ last.outcome = "ok"
    /\ last.wBefore # << >>
    /\ w = last.wBefore \o << 0 >>

\* C10: no accessor, Scan or Encode call changes the record
C10_RecordUnchanged == record = orig

\* a record that has been encoded and then scanned, once with an error
C10_Witness ==
    /\ Len(written) > 0
    /\ written[Len(written)].record = orig
    /\ last.op = "Scan"
    /\ last.outcome = "error"
    /\ record = orig

\* --------------------------------------------------------- framer actions
IdleCodec ==
    /\ record = IntRecord(0)
    /\ orig = record
    /\ w = << >>
    /\ written = << >>
    /\ rpos = 0
    /\ dec = NoDecode
    /\ last = NoCall

\* the caller writes a request and keeps the token it is given
WriteRequest ==
    /\ nextCookie <= MaxRequests
    /\ \E method \in Methods, args \in ArgLists :
          LET r == WritePacket(method, args, nextCookie) IN
          /\ nextCookie' = nextCookie + 1
          /\ issued' = IF r.outcome = "ok" THEN issued \cup {r.cookie} ELSE issued
          /\ outbox' = IF r.outcome = "ok" THEN Append(outbox, r.packet) ELSE outbox
    /\ UNCHANGED << inbox, reads >>
    /\ UNCHANGED codecVars

\* the peer answers one of the requests in flight, in any order: with a whole
\* reply, with one the connection cuts short, or with a broken envelope
PeerReply ==
    /\ \E i \in 1 .. Len(outbox), body \in GoodBodies \cup BadBodies,
          shape \in {"whole", "cut", "garbled"} :
          LET reply ==
                  IF shape = "whole" THEN Packet(Marker, Len(body), outbox[i].cookie, body)
                  ELSE IF shape = "cut"
                  THEN Packet(Marker, Len(body) + 1, outbox[i].cookie, body)
                  ELSE Packet("", Len(body), outbox[i].cookie, body)
          IN  /\ inbox' = Append(inbox, reply)
              /\ outbox' = SubSeq(outbox, 1, i - 1) \o SubSeq(outbox, i + 1, Len(outbox))
    /\ UNCHANGED << nextCookie, issued, reads >>
    /\ UNCHANGED codecVars

\* the caller reads the next reply, expecting one of its tokens or another
ReadResponse ==
    /\ inbox # << >>
    /\ \E expected \in issued \cup ForeignCookies :
          LET r == ReadPacket(Head(inbox), expected) IN
          reads' = Append(reads, [expected |-> expected, packet |-> Head(inbox),
                                  outcome |-> r.outcome, err |-> r.err,
                                  records |-> r.records])
    /\ inbox' = Tail(inbox)
    /\ UNCHANGED << nextCookie, issued, outbox >>
    /\ UNCHANGED codecVars

NextPacket ==
    \/ WriteRequest
    \/ PeerReply
    \/ ReadResponse

InitPacket == IdleCodec /\ IdlePacket

PacketSpec == InitPacket /\ [][NextPacket]_vars

\* ------------------------------------------------------ framer properties
\* C5: a reply to a written request is returned only to the caller expecting
\* the token in it: with that token ReadPacket succeeds, with any other token
\* it fails with the cookie mismatch
C5_TokenCorrelation ==
    \A i \in 1 .. Len(reads) :
        LET rd == reads[i] IN
        /\ rd.outcome = "ok" => rd.expected = rd.packet.cookie
        /\ (rd.packet.marker = Marker /\ rd.expected # rd.packet.cookie) =>
              rd.outcome = "error" /\ rd.err = ErrCookieMismatch
        /\ (/\ rd.packet.cookie \in issued
            /\ rd.packet.marker = Marker
            /\ rd.packet.len = Len(rd.packet.body)
            /\ rd.packet.body \in GoodBodies
            /\ rd.expected = rd.packet.cookie) => rd.outcome = "ok"

\* two requests in flight: the reply to one read with the token of the other,
\* the reply to the other read with its own token
C5_Witness ==
    /\ Len(reads) = 2
    /\ reads[1].expected \in issued
    /\ reads[1].packet.cookie \in issued
    /\ reads[1].expected # reads[1].packet.cookie
    /\ reads[1].err = ErrCookieMismatch
    /\ reads[2].expected = reads[2].packet.cookie
    /\ reads[2].outcome = "ok"
    /\ Len(reads[2].records) = 1

====
